---- MODULE Spec2Model ----
(***************************************************************************)
(* Model of rust/core-lib/src/index_set.rs: IndexSet, a sorted vector of   *)
(* half-open ranges, with union_one_range, delete_range, minus_one_range   *)
(* (MinusIter, a double-ended iterator) and apply_delta.                   *)
(*                                                                         *)
(* A range (start, end) is the tuple <<start, end>>.  Vectors are          *)
(* sequences; the operators take the 0-based indices of the source and     *)
(* read element i of a vector v as At(v, i).                               *)
(***************************************************************************)
EXTENDS Integers, Sequences, FiniteSets, TLC

\* Positions are 0..MaxPos.
MaxPos == 5

Pos == 0..MaxPos

\* The positions after a delta are 0..MaxNewPos.
MaxNewPos == 3

NewPos == 0..MaxNewPos

\* A delta that is a pure insertion inserts 1..MaxIns characters.
MaxIns == 2

\* The (start, end) arguments that satisfy the precondition start <= end.
Args == {a \in Pos \X Pos : a[1] <= a[2]}

min(a, b) == IF a < b THEN a ELSE b

max(a, b) == IF a > b THEN a ELSE b

At(v, i) == v[i + 1]

\* Vec::insert(index, x)
Insert(v, index, x) ==
    [k \in 1..(Len(v) + 1) |->
        IF k - 1 < index THEN v[k]
        ELSE IF k - 1 = index THEN x
        ELSE v[k - 1]]

\* v[i].0 = x
SetStart(v, i, x) == [v EXCEPT ![i + 1] = <<x, v[i + 1][2]>>]

\* v[i].1 = x
SetEnd(v, i, x) == [v EXCEPT ![i + 1] = <<v[i + 1][1], x>>]

\* Mutant of remove_n_at: the case n == 1 is missing, a single element is not
\* removed.
remove_n_at_multi_only(v, index, n) ==
    IF n > 1
    THEN LET new_len == Len(v) - n
         IN  [k \in 1..new_len |-> IF k - 1 >= index THEN v[k + n] ELSE v[k]]
    ELSE v

remove_n_at(v, index, n) ==
    IF n = 1
    THEN [k \in 1..(Len(v) - 1) |-> IF k - 1 < index THEN v[k] ELSE v[k + 1]]
    ELSE IF n > 1
    THEN LET new_len == Len(v) - n
         IN  [k \in 1..new_len |-> IF k - 1 >= index THEN v[k + n] ELSE v[k]]
    ELSE v

(***************************************************************************)
(* union_one_range                                                         *)
(***************************************************************************)
\* Mutant of UnionAbsorb: a following range that only touches end (end equal to
\* its start) is not absorbed.
RECURSIVE UnionAbsorbStrict(_, _, _)
UnionAbsorbStrict(v, j, end) ==
    IF j + 1 < Len(v) /\ end > At(v, j + 1)[1]
    THEN UnionAbsorbStrict(v, j + 1, end)
    ELSE j

\* the inner while loop: the last index j whose range is absorbed
RECURSIVE UnionAbsorb(_, _, _)
UnionAbsorb(v, j, end) ==
    IF j + 1 < Len(v) /\ end >= At(v, j + 1)[1]
    THEN UnionAbsorb(v, j + 1, end)
    ELSE j

\* the else branch: merge (start, end) into range i and the ranges after it
UnionMerge(v, i, start, end) ==
    LET v1 == SetStart(v, i, min(start, At(v, i)[1]))
        j  == UnionAbsorb(v1, i, end)
        v2 == SetEnd(v1, i, max(end, At(v1, j)[2]))
    IN  remove_n_at(v2, i + 1, j - i)

\* Mutant of UnionScan: a new range that ends exactly where range i starts is
\* inserted before it (end <= istart), not merged with it.
RECURSIVE UnionScanInsertOnTouch(_, _, _, _)
UnionScanInsertOnTouch(v, i, start, end) ==
    IF i >= Len(v)
    THEN Append(v, <<start, end>>)
    ELSE LET istart == At(v, i)[1]
             iend   == At(v, i)[2]
         IN  IF start > iend THEN UnionScanInsertOnTouch(v, i + 1, start, end)
             ELSE IF end <= istart THEN Insert(v, i, <<start, end>>)
             ELSE UnionMerge(v, i, start, end)

\* the for loop, from index i on
RECURSIVE UnionScan(_, _, _, _)
UnionScan(v, i, start, end) ==
    IF i >= Len(v)
    THEN Append(v, <<start, end>>)
    ELSE LET istart == At(v, i)[1]
             iend   == At(v, i)[2]
         IN  IF start > iend THEN UnionScan(v, i + 1, start, end)
             ELSE IF end < istart THEN Insert(v, i, <<start, end>>)
             ELSE UnionMerge(v, i, start, end)

union_one_range(v, start, end) == UnionScan(v, 0, start, end)

(***************************************************************************)
(* delete_range                                                            *)
(***************************************************************************)
\* Mutant of BinarySearch: a range that ends exactly at start compares Less
\* (r.1 <= start), so the search goes past it.
RECURSIVE BinarySearchPastEqual(_, _, _, _)
BinarySearchPastEqual(v, base, size, start) ==
    LET head == size \div 2
    IN  IF size - head = 0 THEN base
        ELSE IF At(v, base + head)[2] <= start
             THEN BinarySearchPastEqual(v, base + head + 1, size - head - 1,
                                        start)
        ELSE BinarySearchPastEqual(v, base, head, start)

\* slice::binary_search_by(|r| r.1.cmp(&start)) on the slice
\* v[base .. base + size]; Ok(ix) and Err(ix) both give ix.
RECURSIVE BinarySearch(_, _, _, _)
BinarySearch(v, base, size, start) ==
    LET head == size \div 2
    IN  IF size - head = 0 THEN base
        ELSE IF At(v, base + head)[2] < start
             THEN BinarySearch(v, base + head + 1, size - head - 1, start)
        ELSE IF At(v, base + head)[2] > start
             THEN BinarySearch(v, base, head, start)
        ELSE base + head

\* del_from is an Option<usize>: None is the empty sequence, Some(ix) is <<ix>>
None == <<>>

Some(x) == <<x>>

\* Mutant of DeleteScan: del_from is assigned at every marked range, not only
\* at the first one.
RECURSIVE DeleteScanLastFrom(_, _, _, _, _, _)
DeleteScanLastFrom(v, ix, start, end, del_from, del_len) ==
    IF ix >= Len(v) \/ At(v, ix)[1] >= end
    THEN [ranges |-> v, del_from |-> del_from, del_len |-> del_len]
    ELSE IF At(v, ix)[1] < start
    THEN LET v1 == IF At(v, ix)[2] > end
                   THEN Insert(v, ix + 1, <<end, At(v, ix)[2]>>)
                   ELSE v
         IN  DeleteScanLastFrom(SetEnd(v1, ix, start), ix + 1, start, end,
                                del_from, del_len)
    ELSE IF At(v, ix)[2] > end
    THEN DeleteScanLastFrom(SetStart(v, ix, end), ix + 1, start, end,
                            del_from, del_len)
    ELSE DeleteScanLastFrom(v, ix + 1, start, end, Some(ix), del_len + 1)

\* the while loop from index ix on; the result is the vector after the scan
\* with del_from and del_len
RECURSIVE DeleteScan(_, _, _, _, _, _)
DeleteScan(v, ix, start, end, del_from, del_len) ==
    IF ix >= Len(v) \/ At(v, ix)[1] >= end
    THEN [ranges |-> v, del_from |-> del_from, del_len |-> del_len]
    ELSE IF At(v, ix)[1] < start
    THEN LET v1 == IF At(v, ix)[2] > end
                   THEN Insert(v, ix + 1, <<end, At(v, ix)[2]>>)
                   ELSE v
         IN  DeleteScan(SetEnd(v1, ix, start), ix + 1, start, end,
                        del_from, del_len)
    ELSE IF At(v, ix)[2] > end
    THEN DeleteScan(SetStart(v, ix, end), ix + 1, start, end,
                    del_from, del_len)
    ELSE DeleteScan(v, ix + 1, start, end,
                    IF del_from = None THEN Some(ix) ELSE del_from,
                    del_len + 1)

\* Mutant of DeleteFirstIx: the search compares the ranges' starts (r.0), not
\* their ends.
RECURSIVE BinarySearchStarts(_, _, _, _)
BinarySearchStarts(v, base, size, start) ==
    LET head == size \div 2
    IN  IF size - head = 0 THEN base
        ELSE IF At(v, base + head)[1] < start
             THEN BinarySearchStarts(v, base + head + 1, size - head - 1, start)
        ELSE IF At(v, base + head)[1] > start
             THEN BinarySearchStarts(v, base, head, start)
        ELSE base + head

DeleteFirstIxByStart(v, start) == BinarySearchStarts(v, 0, Len(v), start)

DeleteFirstIx(v, start) == BinarySearch(v, 0, Len(v), start)

DeleteScanned(v, start, end) ==
    DeleteScan(v, DeleteFirstIx(v, start), start, end, None, 0)

delete_range(v, start, end) ==
    LET s == DeleteScanned(v, start, end)
    IN  IF s.del_from # None
        THEN remove_n_at(s.ranges, s.del_from[1], s.del_len)
        ELSE s.ranges

(***************************************************************************)
(* minus_one_range and MinusIter                                           *)
(***************************************************************************)
\* the slice &v[from..]
SliceFrom(v, from) == [k \in 1..(Len(v) - from) |-> v[k + from]]

\* the slice &v[..to]
SliceTo(v, to) == [k \in 1..to |-> v[k]]

RECURSIVE MinusTrim(_, _)
MinusTrim(v, start) ==
    IF Len(v) # 0 /\ start >= At(v, 0)[2]
    THEN MinusTrim(SliceFrom(v, 1), start)
    ELSE v

\* Mutant of minus_one_range: the ranges that end at or before start are not
\* skipped.
minus_one_range_untrimmed(v, start, end) ==
    [ranges |-> v, start |-> start, end |-> end]

minus_one_range(v, start, end) ==
    [ranges |-> MinusTrim(v, start), start |-> start, end |-> end]

\* Mutant of next: when the rest of the window is yielded the cursor is not
\* moved to the end (self.start = self.end is missing).
RECURSIVE next_keeps_start(_)
next_keeps_start(it) ==
    IF ~(it.start < it.end)
    THEN [iter |-> it, ret |-> None]
    ELSE IF Len(it.ranges) = 0 \/ it.end <= At(it.ranges, 0)[1]
    THEN [iter |-> it, ret |-> Some(<<it.start, it.end>>)]
    ELSE LET result == <<it.start, At(it.ranges, 0)[1]>>
             it1    == [it EXCEPT !.start = At(it.ranges, 0)[2],
                                  !.ranges = SliceFrom(it.ranges, 1)]
         IN  IF result[2] > result[1]
             THEN [iter |-> it1, ret |-> Some(result)]
             ELSE next_keeps_start(it1)

\* next: the iterator after the call and the returned Option
RECURSIVE next(_)
next(it) ==
    IF ~(it.start < it.end)
    THEN [iter |-> it, ret |-> None]
    ELSE IF Len(it.ranges) = 0 \/ it.end <= At(it.ranges, 0)[1]
    THEN [iter |-> [it EXCEPT !.start = it.end],
          ret  |-> Some(<<it.start, it.end>>)]
    ELSE LET result == <<it.start, At(it.ranges, 0)[1]>>
             it1    == [it EXCEPT !.start = At(it.ranges, 0)[2],
                                  !.ranges = SliceFrom(it.ranges, 1)]
         IN  IF result[2] > result[1]
             THEN [iter |-> it1, ret |-> Some(result)]
             ELSE next(it1)

RECURSIVE next_back(_)
next_back(it) ==
    IF ~(it.start < it.end)
    THEN [iter |-> it, ret |-> None]
    ELSE IF Len(it.ranges) = 0
            \/ At(it.ranges, Len(it.ranges) - 1)[2] <= it.start
    THEN [iter |-> [it EXCEPT !.start = it.end],
          ret  |-> Some(<<it.start, it.end>>)]
    ELSE LET last_ix == Len(it.ranges) - 1
             result  == <<At(it.ranges, last_ix)[2], it.end>>
             it1     == [it EXCEPT !.end = At(it.ranges, last_ix)[1],
                                   !.ranges = SliceTo(it.ranges, last_ix)]
         IN  IF result[2] > result[1]
             THEN [iter |-> it1, ret |-> Some(result)]
             ELSE next_back(it1)

(***************************************************************************)
(* apply_delta                                                             *)
(***************************************************************************)
\* apply_delta reads the mapping transformer.transform(_, false) of the delta
\* only at the endpoints of the stored ranges.
Endpoints(v) == {v[k][1] : k \in 1..Len(v)} \cup {v[k][2] : k \in 1..Len(v)}

\* the non-decreasing sequences of n new positions, each at least lo
RECURSIVE MonoSeqs(_, _)
MonoSeqs(n, lo) ==
    IF n = 0 THEN {<<>>}
    ELSE UNION {{<<x>> \o s : s \in MonoSeqs(n - 1, x)} : x \in lo..MaxNewPos}

\* The position mappings of a delta, restricted to the positions D: the
\* monotonic non-decreasing functions from D to the new positions, each given
\* by the sequence of its values in the order of D.
MonoTable == [n \in 0..(MaxPos + 1) |-> MonoSeqs(n, 0)]

Transforms(D) ==
    {[p \in D |-> s[Cardinality({q \in D : q <= p})]] :
        s \in MonoTable[Cardinality(D)]}

\* The position mapping transform(_, false) of a delta that inserts k > 0
\* characters at position p: a position at or before p stays, a later one
\* moves by k.
InsertTransform(p, k) == [q \in Pos |-> IF q <= p THEN q ELSE q + k]

\* Mutant of ApplyScan: the end of a range is not mapped.
RECURSIVE ApplyScanEndUnmapped(_, _, _, _)
ApplyScanEndUnmapped(v, i, transform, ranges) ==
    IF i >= Len(v) THEN ranges
    ELSE LET new_range == <<transform[At(v, i)[1]], At(v, i)[2]>>
         IN  IF new_range[1] = new_range[2]
             THEN ApplyScanEndUnmapped(v, i + 1, transform, ranges)
             ELSE IF Len(ranges) # 0
                     /\ At(ranges, Len(ranges) - 1)[2] = new_range[1]
             THEN ApplyScanEndUnmapped(v, i + 1, transform,
                      SetEnd(ranges, Len(ranges) - 1, new_range[2]))
             ELSE ApplyScanEndUnmapped(v, i + 1, transform,
                      Append(ranges, new_range))

\* Mutant of ApplyScan: a collapsed range is not removed.
RECURSIVE ApplyScanKeepCollapsed(_, _, _, _)
ApplyScanKeepCollapsed(v, i, transform, ranges) ==
    IF i >= Len(v) THEN ranges
    ELSE LET new_range == <<transform[At(v, i)[1]], transform[At(v, i)[2]]>>
         IN  IF Len(ranges) # 0
                /\ At(ranges, Len(ranges) - 1)[2] = new_range[1]
             THEN ApplyScanKeepCollapsed(v, i + 1, transform,
                      SetEnd(ranges, Len(ranges) - 1, new_range[2]))
             ELSE ApplyScanKeepCollapsed(v, i + 1, transform,
                      Append(ranges, new_range))

\* the for loop over self.ranges from index i on, with the ranges emitted so far
RECURSIVE ApplyScan(_, _, _, _)
ApplyScan(v, i, transform, ranges) ==
    IF i >= Len(v) THEN ranges
    ELSE LET new_range == <<transform[At(v, i)[1]], transform[At(v, i)[2]]>>
         IN  IF new_range[1] = new_range[2]
             THEN ApplyScan(v, i + 1, transform, ranges)
             ELSE IF Len(ranges) # 0
                     /\ At(ranges, Len(ranges) - 1)[2] = new_range[1]
             THEN ApplyScan(v, i + 1, transform,
                      SetEnd(ranges, Len(ranges) - 1, new_range[2]))
             ELSE ApplyScan(v, i + 1, transform, Append(ranges, new_range))

apply_delta(v, transform) == ApplyScan(v, 0, transform, <<>>)

(***************************************************************************)
(* The state machine: one IndexSet, the last call made on it, the set      *)
(* returned by the last apply_delta, and one MinusIter borrowed from it.   *)
(***************************************************************************)
VARIABLES
    ranges,   \* IndexSet.ranges
    last,     \* the last call on the set: [op, start, end]; for apply_delta
              \* with a pure insertion, start is the position and end the
              \* number of characters inserted, and (0, 0) for another delta
    prev,     \* IndexSet.ranges before the last call
    repeat,   \* the last call repeated the call before it, arguments included
    out,      \* the ranges of the set returned by the last apply_delta
    iter,     \* the live MinusIter (ranges, start, end), or NoIter
    front,    \* the elements next() has returned on iter, in order
    back,     \* the elements next_back() has returned on iter, in order
    ret,      \* the last call on iter and what it returned
    done      \* a call on iter has returned None

vars == <<ranges, last, prev, repeat, out, iter, front, back, ret, done>>

NoIter == [live |-> FALSE]

NoRet == [call |-> "none", val |-> None]

Call(op, start, end) == [op |-> op, start |-> start, end |-> end]

IterIdle == iter' = NoIter /\ front' = <<>> /\ back' = <<>>
            /\ ret' = NoRet /\ done' = FALSE

Init ==
    /\ ranges = <<>>
    /\ last = Call("new", 0, 0)
    /\ prev = <<>>
    /\ repeat = FALSE
    /\ out = <<>>
    /\ iter = NoIter
    /\ front = <<>>
    /\ back = <<>>
    /\ ret = NoRet
    /\ done = FALSE

\* The set is mutably borrowed by these calls, so no MinusIter is live.
Clear ==
    /\ ~iter.live
    /\ last.op # "clear"
    /\ ranges' = <<>>
    /\ prev' = ranges
    /\ last' = Call("clear", 0, 0)
    /\ repeat' = FALSE
    /\ out' = <<>>
    /\ IterIdle

Union ==
    /\ ~iter.live
    /\ \E a \in Args :
        /\ ranges' = union_one_range(ranges, a[1], a[2])
        /\ last' = Call("union_one_range", a[1], a[2])
    /\ repeat' = (last' = last)
    /\ prev' = ranges
    /\ out' = <<>>
    /\ IterIdle

Delete ==
    /\ ~iter.live
    /\ \E a \in Args :
        /\ ranges' = delete_range(ranges, a[1], a[2])
        /\ last' = Call("delete_range", a[1], a[2])
    /\ repeat' = (last' = last)
    /\ prev' = ranges
    /\ out' = <<>>
    /\ IterIdle

\* Mutant of ApplyDelta: the set is transformed in place, self.ranges is
\* replaced by the mapped ranges.
ApplyDeltaInPlace ==
    /\ ~iter.live
    /\ \E transform \in Transforms(Endpoints(ranges)) :
        out' = apply_delta(ranges, transform)
    /\ last' = Call("apply_delta", 0, 0)
    /\ repeat' = FALSE
    /\ prev' = ranges
    /\ ranges' = out'
    /\ IterIdle

ApplyDelta ==
    /\ ~iter.live
    /\ \E transform \in Transforms(Endpoints(ranges)) :
        out' = apply_delta(ranges, transform)
    /\ last' = Call("apply_delta", 0, 0)
    /\ repeat' = FALSE
    /\ prev' = ranges
    /\ UNCHANGED ranges
    /\ IterIdle

\* apply_delta with the delta of a pure insertion
ApplyInsert ==
    /\ ~iter.live
    /\ \E p \in Pos, k \in 1..MaxIns :
        /\ out' = apply_delta(ranges, InsertTransform(p, k))
        /\ last' = Call("apply_delta", p, k)
    /\ repeat' = FALSE
    /\ prev' = ranges
    /\ UNCHANGED ranges
    /\ IterIdle

\* clear() on the set that apply_delta returned
ClearReturned ==
    /\ ~iter.live
    /\ last.op = "apply_delta"
    /\ out # <<>>
    /\ out' = <<>>
    /\ last' = Call("returned.clear", 0, 0)
    /\ repeat' = FALSE
    /\ prev' = ranges
    /\ UNCHANGED ranges
    /\ IterIdle

MinusOneRange ==
    /\ ~iter.live
    /\ \E start \in Pos, end \in Pos :
        /\ iter' = [live |-> TRUE] @@ minus_one_range(ranges, start, end)
        /\ last' = Call("minus_one_range", start, end)
    /\ repeat' = FALSE
    /\ prev' = ranges
    /\ out' = <<>>
    /\ front' = <<>>
    /\ back' = <<>>
    /\ ret' = NoRet
    /\ done' = FALSE
    /\ UNCHANGED ranges

IterOf(it) == [ranges |-> it.ranges, start |-> it.start, end |-> it.end]

Next_ ==
    /\ iter.live
    /\ LET r == next(IterOf(iter))
       IN  /\ iter' = [live |-> TRUE] @@ r.iter
           /\ ret' = [call |-> "next", val |-> r.ret]
           /\ front' = IF r.ret = None THEN front ELSE Append(front, r.ret[1])
           /\ done' = (done \/ r.ret = None)
    /\ UNCHANGED <<ranges, last, prev, repeat, out, back>>

NextBack ==
    /\ iter.live
    /\ LET r == next_back(IterOf(iter))
       IN  /\ iter' = [live |-> TRUE] @@ r.iter
           /\ ret' = [call |-> "next_back", val |-> r.ret]
           /\ back' = IF r.ret = None THEN back ELSE Append(back, r.ret[1])
           /\ done' = (done \/ r.ret = None)
    /\ UNCHANGED <<ranges, last, prev, repeat, out, front>>

\* The iterator goes out of scope and the borrow ends.
DropIter ==
    /\ iter.live
    /\ IterIdle
    /\ last' = Call("drop", 0, 0)
    /\ UNCHANGED <<ranges, prev, repeat, out>>

Next ==
    \/ Clear
    \/ Union
    \/ Delete
    \/ ApplyDelta
    \/ ApplyInsert
    \/ ClearReturned
    \/ MinusOneRange
    \/ Next_
    \/ NextBack
    \/ DropIter

Spec == Init /\ [][Next]_vars

(***************************************************************************)
(* The set under callers that pass only non-empty ranges (start < end) to  *)
(* union_one_range and delete_range.                                       *)
(***************************************************************************)
StrictArgs == {a \in Args : a[1] < a[2]}

UnionStrict ==
    /\ ~iter.live
    /\ \E a \in StrictArgs :
        /\ ranges' = union_one_range(ranges, a[1], a[2])
        /\ last' = Call("union_one_range", a[1], a[2])
    /\ repeat' = (last' = last)
    /\ prev' = ranges
    /\ out' = <<>>
    /\ IterIdle

DeleteStrict ==
    /\ ~iter.live
    /\ \E a \in StrictArgs :
        /\ ranges' = delete_range(ranges, a[1], a[2])
        /\ last' = Call("delete_range", a[1], a[2])
    /\ repeat' = (last' = last)
    /\ prev' = ranges
    /\ out' = <<>>
    /\ IterIdle

NextStrict ==
    \/ Clear
    \/ UnionStrict
    \/ DeleteStrict

SpecStrict == Init /\ [][NextStrict]_vars

(***************************************************************************)
(* Vocabulary of the properties                                            *)
(***************************************************************************)
\* the positions p with r.start <= p < r.end
Cells(r) == {p \in Pos : r[1] <= p /\ p < r[2]}

\* the positions covered by the ranges of v
Covered(v) == UNION {Cells(v[k]) : k \in 1..Len(v)}

\* strictly ascending, no empty range, adjacent ranges neither overlap nor touch
SetInvariant(v) ==
    \A k \in 1..Len(v) :
        /\ v[k][1] < v[k][2]
        /\ k < Len(v) => v[k][2] < v[k + 1][1]

Reverse(s) == [k \in 1..Len(s) |-> s[Len(s) + 1 - k]]

\* the elements next() returns until it returns None
RECURSIVE ForwardAll(_)
ForwardAll(it) ==
    LET r == next(it)
    IN  IF r.ret = None THEN <<>> ELSE <<r.ret[1]>> \o ForwardAll(r.iter)

\* the elements next_back() returns until it returns None
RECURSIVE BackwardAll(_)
BackwardAll(it) ==
    LET r == next_back(it)
    IN  IF r.ret = None THEN <<>> ELSE <<r.ret[1]>> \o BackwardAll(r.iter)

\* the iterator minus_one_range returned for the live iterator's window
Fresh == minus_one_range(ranges, last.start, last.end)

\* the live iterator has been consumed from the front only, to the end
FrontConsumed == iter.live /\ done /\ back = <<>>

(***************************************************************************)
(* Properties                                                              *)
(***************************************************************************)
\* C1: after any sequence of union_one_range / delete_range calls with
\* start <= end the stored ranges are strictly ascending, none is empty and
\* adjacent ranges neither overlap nor touch.
C1_InvariantPreservation == SetInvariant(ranges)

\* C2: consuming minus_one_range(a, b) with next() to the end gives the
\* reverse of what consuming a fresh minus_one_range(a, b) with next_back()
\* to the end gives.
C2_FrontIsReverseOfBack ==
    FrontConsumed => front = Reverse(BackwardAll(Fresh))

\* C3: when an interleaving of next() and next_back() calls on one iterator
\* has reached a call that returns None, the elements next() returned
\* followed by the reversed elements next_back() returned are the front-only
\* sequence of a fresh iterator.
C3_InterleavingPartitions ==
    (iter.live /\ done) => front \o Reverse(back) = ForwardAll(Fresh)

\* C4: for a window a <= b, the intervals next() yields cover exactly the
\* positions of [a, b) the set does not cover: each position of [a, b) is in
\* exactly one yielded interval or in the stored coverage, never both, and no
\* yielded interval has a position outside [a, b).
C4_ForwardIsComplement ==
    (FrontConsumed /\ last.start <= last.end) =>
        /\ \A p \in Cells(<<last.start, last.end>>) :
            LET n == Cardinality({k \in 1..Len(front) : p \in Cells(front[k])})
            IN  IF p \in Covered(ranges) THEN n = 0 ELSE n = 1
        /\ \A k \in 1..Len(front) :
            Cells(front[k]) \subseteq Cells(<<last.start, last.end>>)

\* C4 witness: a window that begins after the first stored range and that
\* the later ranges cut into several gaps has been consumed from the front.
C4_Witness ==
    /\ FrontConsumed
    /\ SetInvariant(ranges)
    /\ Len(front) >= 2
    /\ Covered(ranges) \cap Cells(<<last.start, last.end>>) # {}
    /\ Len(ranges) > Len(Fresh.ranges)

\* C5: delete_range(s, s) leaves the stored sequence as it was.
C5_DeleteEmptyIsNoOp ==
    (last.op = "delete_range" /\ last.start = last.end) => ranges = prev

\* C6: union_one_range(s, s) leaves the stored sequence as it was.
C6_UnionEmptyIsNoOp ==
    (last.op = "union_one_range" /\ last.start = last.end) => ranges = prev

\* C7: union_one_range(s, e) on an empty set followed by delete_range(s, e)
\* leaves no stored range.
C7_UnionThenDeleteIsEmpty ==
    [][(/\ last.op = "union_one_range"
        /\ prev = <<>>
        /\ last'.op = "delete_range"
        /\ last'.start = last.start
        /\ last'.end = last.end) => ranges' = <<>>]_vars

\* the indices of the ranges of v that [start, end) overlaps or touches
Contacted(v, start, end) ==
    {k \in 1..Len(v) : v[k][1] <= end /\ v[k][2] >= start}

\* the ranges of v at the indices not in K, in order
RECURSIVE Without(_, _)
Without(v, K) ==
    IF v = <<>> THEN <<>>
    ELSE LET rest == Without(SliceTo(v, Len(v) - 1), K)
         IN  IF Len(v) \in K THEN rest ELSE Append(rest, v[Len(v)])

\* the single range that (start, end) and the ranges of v at K merge into
Merged(v, K, start, end) ==
    LET lo == CHOOSE x \in {start} \cup {v[k][1] : k \in K} :
                  \A y \in {start} \cup {v[k][1] : k \in K} : x <= y
        hi == CHOOSE x \in {end} \cup {v[k][2] : k \in K} :
                  \A y \in {end} \cup {v[k][2] : k \in K} : x >= y
    IN  <<lo, hi>>

\* C8: after union_one_range(s, e) the covered positions are the ones covered
\* before together with [s, e), and the new range and every stored range it
\* overlapped or touched are one stored range; the other ranges are kept.
C8_UnionCoversAndMerges ==
    last.op = "union_one_range" =>
        LET K == Contacted(prev, last.start, last.end)
            m == Merged(prev, K, last.start, last.end)
        IN  /\ Covered(ranges) = Covered(prev) \cup Cells(<<last.start, last.end>>)
            /\ Len(ranges) = Len(prev) - Cardinality(K) + 1
            /\ \E k \in 1..Len(ranges) :
                /\ ranges[k] = m
                /\ Without(ranges, {k}) = Without(prev, K)
            /\ Cardinality(Contacted(ranges, last.start, last.end)) = 1

\* C8 witness: a non-empty range that touches the stored range before it and
\* the one after it has been unioned in, as (2, 3) into (1, 2), (3, 5).
C8_Witness ==
    /\ last.op = "union_one_range"
    /\ last.start < last.end
    /\ SetInvariant(prev)
    /\ \E k \in 1..(Len(prev) - 1) :
        prev[k][2] = last.start /\ prev[k + 1][1] = last.end
    /\ Len(ranges) = Len(prev) - 1

\* What delete_range(start, end) leaves of the range r.  r is outside
\* [start, end) when it ends at or before start or starts at or after end; an
\* empty range (p, p) is where its position p is, so it is inside when
\* start <= p < end.
DeletePieces(r, start, end) ==
    IF (r[2] <= start /\ r[1] < start) \/ r[1] >= end THEN <<r>>
    ELSE (IF r[1] < start THEN <<<<r[1], start>>>> ELSE <<>>)
         \o (IF r[2] > end THEN <<<<end, r[2]>>>> ELSE <<>>)

RECURSIVE DeleteExpected(_, _, _)
DeleteExpected(v, start, end) ==
    IF v = <<>> THEN <<>>
    ELSE DeleteExpected(SliceTo(v, Len(v) - 1), start, end)
         \o DeletePieces(v[Len(v)], start, end)

\* C9: after delete_range(s, e) the covered positions are the ones covered
\* before without [s, e): a range straddling s ends at s, one straddling e
\* starts at e, one containing [s, e) strictly inside is split in two, one
\* inside [s, e) is removed and one outside [s, e) is unchanged.
C9_DeleteUncoversAndClips ==
    last.op = "delete_range" =>
        /\ Covered(ranges) = Covered(prev) \ Cells(<<last.start, last.end>>)
        /\ ranges = DeleteExpected(prev, last.start, last.end)

\* C9 witness: one call has clipped the range straddling s to end at s and
\* the range straddling e to start at e.
C9_Witness ==
    /\ last.op = "delete_range"
    /\ SetInvariant(prev)
    /\ Len(prev) = 2
    /\ prev[1][1] < last.start /\ last.start < prev[1][2]
    /\ prev[2][1] < last.end /\ last.end < prev[2][2]
    /\ ranges = <<<<prev[1][1], last.start>>, <<last.end, prev[2][2]>>>>

\* C10: for a source set that satisfies the set invariants (and a monotonic
\* non-decreasing mapping) the set apply_delta returns has no empty range,
\* no two adjacent ranges that touch or overlap, and is strictly ascending.
C10_ApplyDeltaKeepsInvariant ==
    (last.op = "apply_delta" /\ SetInvariant(ranges)) => SetInvariant(out)

\* C10 witness: apply_delta has turned three stored ranges into one: ranges
\* collapsed and were dropped, or mapped to touching ranges and were merged.
C10_Witness ==
    /\ last.op = "apply_delta"
    /\ SetInvariant(ranges)
    /\ Len(ranges) = 3
    /\ Len(out) = 1

\* the window of the live iterator
Window == <<last.start, last.end>>

\* C11: minus_one_range(a, a) yields nothing; minus_one_range(a, b) yields
\* nothing when the set covers every position of [a, b); and when a < b and
\* no stored range overlaps [a, b) it yields exactly the one element (a, b).
C11_EdgeCases ==
    FrontConsumed =>
        /\ last.start = last.end => front = <<>>
        /\ Cells(Window) \subseteq Covered(ranges) => front = <<>>
        /\ (last.start < last.end /\ Cells(Window) \cap Covered(ranges) = {})
               => front = <<Window>>

\* C12: the stored sequence after union_one_range(s, e) called twice in a
\* row is the stored sequence after the first of the two calls.
C12_UnionIdempotent ==
    (last.op = "union_one_range" /\ repeat) => ranges = prev

\* C12 witness: union_one_range(s, e) with s < e has been called twice in a
\* row, the second call on a set of several ranges that holds [s, e) inside
\* one of them.
C12_Witness ==
    /\ last.op = "union_one_range"
    /\ repeat
    /\ last.start < last.end
    /\ SetInvariant(ranges)
    /\ Len(ranges) >= 2
    /\ \E k \in 1..Len(ranges) :
        /\ ranges[k][1] < last.start
        /\ last.end < ranges[k][2]

\* C13: on a set with n stored ranges the calls of next() and next_back()
\* on one iterator return at most n + 1 elements, and once a call has
\* returned None every later call of either returns None.
C13_FiniteAndTerminal ==
    iter.live =>
        /\ Len(front) + Len(back) <= Len(ranges) + 1
        /\ done => /\ next(IterOf(iter)).ret = None
                   /\ next_back(IterOf(iter)).ret = None

\* C13 witness: an iterator consumed from both ends has returned n + 1
\* elements on a set of n >= 2 ranges and then None.
C13_Witness ==
    /\ iter.live
    /\ done
    /\ SetInvariant(ranges)
    /\ Len(ranges) >= 2
    /\ front # <<>>
    /\ back # <<>>
    /\ Len(front) + Len(back) = Len(ranges) + 1

\* (x, y) is a non-empty sub-interval of the live iterator's window that the
\* set does not cover
GapOfWindow(r) ==
    /\ last.start <= r[1]
    /\ r[1] < r[2]
    /\ r[2] <= last.end
    /\ Cells(r) \cap Covered(ranges) = {}

\* C14: for a window a <= b every element (x, y) that next() or next_back()
\* returns satisfies a <= x < y <= b and no stored range contains a position
\* of [x, y).
C14_ElementsAreGaps ==
    (iter.live /\ last.start <= last.end) =>
        /\ \A k \in 1..Len(front) : GapOfWindow(front[k])
        /\ \A k \in 1..Len(back) : GapOfWindow(back[k])

\* the end of the run of positions of S that starts at p
RECURSIVE RunEnd(_, _)
RunEnd(S, p) == IF p \in S THEN RunEnd(S, p + 1) ELSE p

\* the maximal runs of the positions S at or after p, ascending: the
\* coalesced representation of S
RECURSIVE Coalesced(_, _)
Coalesced(S, p) ==
    IF p > MaxPos THEN <<>>
    ELSE IF p \in S
    THEN <<<<p, RunEnd(S, p)>>>> \o Coalesced(S, RunEnd(S, p))
    ELSE Coalesced(S, p + 1)

\* C15: when every union_one_range and delete_range call has start < end, the
\* stored ranges stay strictly ascending, non-empty, non-overlapping and
\* non-touching, and are the coalesced representation of the covered
\* positions.
C15_StrictCallsKeepInvariant ==
    /\ SetInvariant(ranges)
    /\ ranges = Coalesced(Covered(ranges), 0)

\* C15 witness: a delete_range call with start < end has split one of two
\* stored ranges, leaving three.
C15_Witness ==
    /\ last.op = "delete_range"
    /\ Len(prev) = 2
    /\ Len(ranges) = 3

\* the last call was apply_delta with a pure insertion
Inserted == last.op = "apply_delta" /\ last.end > 0

\* the positions after an insertion
InsPos == 0..(MaxPos + MaxIns)

\* the positions after an insertion covered by the ranges of v
CoveredIns(v) ==
    UNION {{q \in InsPos : v[j][1] <= q /\ q < v[j][2]} : j \in 1..Len(v)}

\* C16 as claimed: after a pure insertion of k > 0 characters at p, every
\* (non-empty) stored range that ends at p and every one that starts at p has
\* a range of the same start and the same width in the result.
C16_InsertionKeepsWidths ==
    Inserted =>
        \A i \in 1..Len(ranges) :
            (/\ ranges[i][1] < ranges[i][2]
             /\ ranges[i][2] = last.start \/ ranges[i][1] = last.start)
                => \E j \in 1..Len(out) : out[j] = ranges[i]

\* C16 as amended: after a pure insertion of k > 0 characters at p the result
\* covers a position before p when the source covers it, a position q at or
\* after p + k when the source covers q - k, and the k inserted positions
\* when the source covers p.  So on a set that satisfies the set invariants a
\* range (a, p) that ends at p is in the result unchanged, and a range (p, b)
\* that starts at p is in the result as (p, b + k), grown by k.
C16_InsertionGrowsFromStart ==
    Inserted =>
        LET p == last.start
            k == last.end
        IN  /\ \A q \in InsPos :
                q \in CoveredIns(out) <=>
                    IF q < p THEN q \in Covered(ranges)
                    ELSE IF q < p + k THEN p \in Covered(ranges)
                    ELSE (q - k) \in Covered(ranges)
            /\ SetInvariant(ranges) =>
                \A i \in 1..Len(ranges) :
                    /\ ranges[i][2] = p
                        => \E j \in 1..Len(out) : out[j] = ranges[i]
                    /\ ranges[i][1] = p
                        => \E j \in 1..Len(out) :
                               out[j] = <<p, ranges[i][2] + k>>

\* C16 witness: an insertion at p has been applied to a set of several
\* ranges, one of which starts at p, and the result reaches past MaxPos.
C16_Witness ==
    /\ Inserted
    /\ SetInvariant(ranges)
    /\ Len(ranges) >= 2
    /\ \E i \in 1..Len(ranges) : ranges[i][1] = last.start
    /\ \E j \in 1..Len(out) : out[j][2] > MaxPos

\* a left-to-right scan that skips exactly the ranges with end < start: the
\* least index whose stored end is >= start, or the length when there is none
RECURSIVE LinearFirstIx(_, _, _)
LinearFirstIx(v, i, start) ==
    IF i < Len(v) /\ At(v, i)[2] < start
    THEN LinearFirstIx(v, i + 1, start)
    ELSE i

\* delete_range with the linear scan in place of the binary search
DeleteLinear(v, start, end) ==
    LET s == DeleteScan(v, LinearFirstIx(v, 0, start), start, end, None, 0)
    IN  IF s.del_from # None
        THEN remove_n_at(s.ranges, s.del_from[1], s.del_len)
        ELSE s.ranges

\* C17: the index at which delete_range(s, e) starts is the least index whose
\* stored end is >= s (the length when there is none), also when a stored
\* range ends exactly at s; the result is that of the linear scan, and no
\* range before that index is modified.
C17_BinarySearchIsLinearScan ==
    last.op = "delete_range" =>
        LET ix == DeleteFirstIx(prev, last.start)
        IN  /\ ix = LinearFirstIx(prev, 0, last.start)
            /\ ranges = DeleteLinear(prev, last.start, last.end)
            /\ Len(ranges) >= ix
            /\ \A k \in 1..ix : ranges[k] = prev[k]

\* C17 witness: delete_range(s, e) on three ranges, the second of which ends
\* exactly at s, so that the search has ranges on both sides of its answer.
C17_Witness ==
    /\ last.op = "delete_range"
    /\ last.start < last.end
    /\ SetInvariant(prev)
    /\ Len(prev) = 3
    /\ prev[2][2] = last.start
    /\ ranges # prev

\* C18: minus_one_range, next() and next_back() on its iterator up to its
\* drop, and apply_delta leave the stored sequence of the set as it was, and
\* so does a later mutation of the set that apply_delta returned.
C18_ReadOnlyOperations ==
    last.op \in {"minus_one_range", "drop", "apply_delta", "returned.clear"}
        => ranges = prev

\* C18 witness: apply_delta returned a non-empty set from a set of several
\* ranges, and the returned set has then been cleared.
C18_Witness ==
    /\ last.op = "returned.clear"
    /\ Len(ranges) >= 2
    /\ SetInvariant(ranges)
    /\ out = <<>>

\* the 1-based indices of the ranges of v that lie fully inside [start, end)
MarkedInside(v, start, end) ==
    {k \in 1..Len(v) : start <= v[k][1] /\ v[k][1] < end /\ v[k][2] <= end}

\* C19: in every delete_range call the ranges of the scanned sequence that lie
\* fully inside [s, e) are exactly the indices del_from .. del_from+del_len-1,
\* the run ends within the sequence, and the result is the scanned sequence
\* without those ranges, the others in their order; with nothing marked the
\* result is the scanned sequence.
C19_MarkedRunIsContiguous ==
    last.op = "delete_range" =>
        LET s == DeleteScanned(prev, last.start, last.end)
            marked == MarkedInside(s.ranges, last.start, last.end)
        IN  /\ s.del_len = Cardinality(marked)
            /\ ranges = Without(s.ranges, marked)
            /\ IF s.del_from = None
               THEN marked = {}
               ELSE /\ s.del_len >= 1
                    /\ s.del_from[1] + s.del_len <= Len(s.ranges)
                    /\ marked = (s.del_from[1] + 1)..(s.del_from[1] + s.del_len)

\* C19 witness: a delete_range on a clean set marked two or more ranges and
\* left a range after the run.
C19_Witness ==
    /\ last.op = "delete_range"
    /\ SetInvariant(prev)
    /\ LET s == DeleteScanned(prev, last.start, last.end)
       IN  /\ s.del_from # None
           /\ s.del_len >= 2
           /\ s.del_from[1] + s.del_len < Len(s.ranges)
    /\ ranges # <<>>

====
